---- MODULE Spec2Model ----
(***************************************************************************)
(* Model of the risehood backend triggers (functions/index.js) and of the  *)
(* client code that writes the documents those triggers react to           *)
(* (OtherProfileScreen.handleFollow, ChatScreen.sendMessage).              *)
(*                                                                         *)
(* Every `await` of the source is one step of the model: between two       *)
(* awaits a handler runs without interruption, at an await any other       *)
(* handler or client may take a step.  A store request that can throw is   *)
(* a choice between its success and its failure.                           *)
(***************************************************************************)
EXTENDS Integers, Sequences, FiniteSets, Bags, TLC

\* ------------------------------------------------------------------------
\* Bounds of the model
\* ------------------------------------------------------------------------

\* what happens to the program from outside in one behaviour, counted
\* together: a tap on the follow button (one handleFollow call), a call of
\* deleteUserAccount, a request that fails, and a repeated delivery of a
\* document event to a trigger (the platform delivers every event to every
\* trigger at least once)
MaxOccurrences == 2

\* length of the longest text typed into the chat input
MaxTextLen == 54

\* ------------------------------------------------------------------------
\* Program constants
\* ------------------------------------------------------------------------

rewardAmount == 1000

DefaultThreshold == 5000

PreviewLength == 50

\* ------------------------------------------------------------------------
\* Universe
\* ------------------------------------------------------------------------

Users == {"u1", "u2", "u3"}

\* mounted OtherProfileScreen instances: <<user.uid, route.params.userId>>
Screens == {<<"u1", "u3">>, <<"u2", "u3">>}

Viewer(s) == s[1]

Profile(s) == s[2]

\* follower edge documents of a user written by accounts outside Users: the
\* followed user is one follower short of the milestone
InitialFollowerCounts == {DefaultThreshold - 1}

NoToken == <<>>

PushTokenOf(u) == <<"ExponentPushToken", u>>

\* a missing field reads as undefined: the empty sequence; a present number
\* n reads as <<n>>
Undefined == <<>>

VARIABLES
  users,          \* users/{uid} documents
  following,      \* users/{uid}/following/{id} documents
  followers,      \* users/{uid}/followers/{id} documents
  otherFollowers, \* number of followers documents written from outside Users
  transactions,   \* users/{uid}/transactions documents
  settings,       \* settings/rewardRule document
  screens,        \* component state of each OtherProfileScreen
  followOps,      \* handleFollow calls started so far
  edgeEvents,     \* write events of users/{userId}/followers/{followerId}
  cfr,            \* running checkFollowerReward invocations (a bag)
  pushLog,        \* requests received by the push gateway
  chat,           \* the chats/{chatId} document
  message,        \* the chats/{chatId}/messages/{messageId} document
  chatScreen,     \* position of ChatScreen.sendMessage
  smn,            \* sendMessageNotification invocations
  failures,       \* requests that have failed so far
  raised,         \* trigger handlers that have thrown an error to the platform
  posts,          \* posts documents, by their userId
  comments,       \* comments documents of all posts, by their userId
  storage,        \* storage objects under users/{uid}/
  auth,           \* uids with a credential in Firebase Authentication
  purge           \* deleteUserAccount invocations

vars == <<users, following, followers, otherFollowers, transactions, settings,
          screens, followOps, edgeEvents, cfr, pushLog, chat, message,
          chatScreen, smn, failures, raised, posts, comments, storage, auth,
          purge>>

followVars == <<users, following, followers, otherFollowers, transactions,
                settings, screens, followOps, edgeEvents, cfr>>

msgVars == <<chat, message, chatScreen, smn>>

purgeVars == <<posts, comments, storage, auth, purge>>

\* deliveries of the message's create event beyond the first
messageRedeliveries ==
  IF message.deliveries > 1 THEN message.deliveries - 1 ELSE 0

\* deliveries beyond the first, over all edge events and both triggers
RECURSIVE redeliveries(_)
redeliveries(events) ==
  IF events = <<>> THEN 0
  ELSE (IF Head(events).ufc > 1 THEN Head(events).ufc - 1 ELSE 0)
       + (IF Head(events).cfr > 1 THEN Head(events).cfr - 1 ELSE 0)
       + redeliveries(Tail(events))

\* one more tap, call, failure or repeated delivery fits into the behaviour
mayOccur ==
  followOps + Len(purge) + failures + redeliveries(edgeEvents)
    + messageRedeliveries < MaxOccurrences

\* the outcomes of one request to the store, the storage bucket, the
\* credential service or the push gateway: it succeeds (TRUE) or throws (FALSE)
\* a request the store must reject (valid = FALSE) always throws
Outcomes(valid) ==
  IF ~valid THEN {FALSE}
  ELSE IF mayOccur THEN {TRUE, FALSE} ELSE {TRUE}

\* a failure of a valid request is counted
outcome(valid, ok) ==
  failures' = IF valid /\ ~ok THEN failures + 1 ELSE failures

\* a catch block that throws the error again
rethrown(handler) == raised \cup {handler}

\* catch (error) { console.error(...) }: the error is logged, and the handler
\* returns normally
caught(handler) == raised

\* ------------------------------------------------------------------------
\* Documents
\* ------------------------------------------------------------------------

\* the profile written at sign-up
signUp(hasToken, uid) ==
  [exists |-> TRUE,
   followersCount |-> 0,
   followingCount |-> 0,
   balance |-> 0,
   rewardClaimed |-> FALSE,
   notifications |-> <<TRUE>>,
   pushToken |-> IF hasToken THEN PushTokenOf(uid) ELSE NoToken]

NoUser ==
  [exists |-> FALSE,
   followersCount |-> 0,
   followingCount |-> 0,
   balance |-> 0,
   rewardClaimed |-> FALSE,
   notifications |-> Undefined,
   pushToken |-> NoToken]

\* FieldValue.increment(n) on one numeric field of a user document
incrementFollowers(doc, n) == [doc EXCEPT !.followersCount = @ + n]

incrementFollowing(doc, n) == [doc EXCEPT !.followingCount = @ + n]


\* batch.update(ref, {field: FieldValue.increment(by)}) applied to the store
applyUpdate(store, op) ==
  IF op.field = "followersCount"
    THEN [store EXCEPT ![op.doc] = incrementFollowers(@, op.by)]
    ELSE [store EXCEPT ![op.doc] = incrementFollowing(@, op.by)]

\* a commit that applies the first update of the batch only
batchCommitFirstOnly(store, batch) ==
  IF batch = <<>> THEN store ELSE applyUpdate(store, Head(batch))

\* batch.commit(): every update of the batch is applied, in order
RECURSIVE batchCommit(_, _)
batchCommit(store, batch) ==
  IF batch = <<>> THEN store
  ELSE batchCommit(applyUpdate(store, Head(batch)), Tail(batch))

\* a store that accepts every batch
batchCanCommitAlways(store, batch) == TRUE

\* a batch that is rejected only when its first document does not exist
batchCanCommitFirst(store, batch) ==
  batch # <<>> => store[batch[1].doc].exists

\* an update of a document that does not exist is rejected, and with it the
\* whole batch
batchCanCommit(store, batch) ==
  \A i \in 1..Len(batch) : store[batch[i].doc].exists

\* settingsDoc.exists ? settingsDoc.data().followerThreshold : 5000
thresholdOf(settingsDoc) ==
  IF settingsDoc.exists THEN settingsDoc.followerThreshold
  ELSE <<DefaultThreshold>>

\* a >= b of JavaScript for a number a and a number or undefined b
jsGreaterEq(a, b) == b # Undefined /\ a >= b[1]

\* the test of line 42 with > in place of >=
rewardDueAbove(userData, threshold) ==
  /\ threshold # Undefined
  /\ userData.followersCount > threshold[1]
  /\ ~userData.rewardClaimed

\* the test of line 42 without its rewardClaimed guard
rewardDueUnguarded(userData, threshold) ==
  jsGreaterEq(userData.followersCount, threshold)

\* currentFollowers >= threshold && !userData.rewardClaimed
rewardDue(userData, threshold) ==
  jsGreaterEq(userData.followersCount, threshold) /\ ~userData.rewardClaimed

\* the Transaction document added for a reward
rewardTransaction(threshold) ==
  [type |-> "reward", amount |-> rewardAmount,
   description |-> <<"Milestone reward for reaching", threshold, "followers">>]

\* the push message of a reward
rewardMessage(userData, threshold) ==
  [to |-> userData.pushToken,
   title |-> <<"Congratulations!">>,
   body |-> <<"You've earned", rewardAmount, "for reaching", threshold, "followers!">>,
   type |-> "reward"]

\* the platform's record of one write of users/{userId}/followers/{followerId}:
\* change.before.exists, change.after.exists, the deliveries made to each
\* trigger, the committed updateFollowerCounts batches for it, and whether the
\* followed user's reward had been claimed when the edge was written
edgeEvent(userId, followerId, before, after) ==
  [userId |-> userId, followerId |-> followerId,
   before |-> before, after |-> after,
   ufc |-> 0, cfr |-> 0, applied |-> 0,
   afterReward |-> users[userId].rewardClaimed]

\* a write of the followers edge document raises a write event, unless it
\* deletes a document that does not exist
followersWritten(userId, followerId, after) ==
  LET before == followerId \in followers[userId]
  IN IF before \/ after
       THEN Append(edgeEvents, edgeEvent(userId, followerId, before, after))
       ELSE edgeEvents

\* the platform may deliver an event to a trigger that has not received it,
\* and may deliver it again
mayDeliver(count) == count = 0 \/ mayOccur

isCreate(ev) == ev.after /\ ~ev.before

isDelete(ev) == ~ev.after /\ ev.before

\* ------------------------------------------------------------------------
\* OtherProfileScreen
\* ------------------------------------------------------------------------

\* catch + finally of handleFollow
handleFollowFailed(s) ==
  screens' = [screens EXCEPT ![s].pc = "idle", ![s].followLoading = FALSE]

handleFollowAt(s, pc) ==
  screens' = [screens EXCEPT ![s].pc = pc, ![s].followLoading = TRUE]

\* handleFollow, follow branch: setDoc of users/{user.uid}/following/{userId}
followSetFollowing(s) ==
  /\ screens[s].pc = "idle"
  /\ ~screens[s].followLoading
  /\ ~screens[s].isFollowing
  /\ mayOccur
  /\ followOps' = followOps + 1
  /\ \E ok \in Outcomes(TRUE) :
       /\ outcome(TRUE, ok)
       /\ IF ok
         THEN /\ following' = [following EXCEPT ![Viewer(s)] = @ \cup {Profile(s)}]
              /\ handleFollowAt(s, "follow2")
         ELSE /\ UNCHANGED following
              /\ handleFollowFailed(s)
  /\ UNCHANGED <<users, followers, otherFollowers, transactions, settings,
                 edgeEvents, cfr, pushLog>>
  /\ UNCHANGED <<msgVars, purgeVars, raised>>

\* setDoc of users/{userId}/followers/{user.uid}
followSetFollowers(s) ==
  /\ screens[s].pc = "follow2"
  /\ \E ok \in Outcomes(TRUE) :
       /\ outcome(TRUE, ok)
       /\ IF ok
         THEN /\ followers' = [followers EXCEPT ![Profile(s)] = @ \cup {Viewer(s)}]
              /\ edgeEvents' = followersWritten(Profile(s), Viewer(s), TRUE)
              /\ handleFollowAt(s, "follow3")
         ELSE /\ UNCHANGED <<followers, edgeEvents>>
              /\ handleFollowFailed(s)
  /\ UNCHANGED <<users, following, otherFollowers, transactions, settings,
                 followOps, cfr, pushLog>>
  /\ UNCHANGED <<msgVars, purgeVars, raised>>

\* updateDoc of users/{user.uid}: followingCount increment(1)
followIncrementFollowing(s) ==
  /\ screens[s].pc = "follow3"
  /\ \E ok \in Outcomes(users[Viewer(s)].exists) :
       /\ outcome(users[Viewer(s)].exists, ok)
       /\ IF ok
            THEN /\ users' = [users EXCEPT ![Viewer(s)] = incrementFollowing(@, 1)]
                 /\ handleFollowAt(s, "follow4")
            ELSE /\ UNCHANGED users
                 /\ handleFollowFailed(s)
  /\ UNCHANGED <<following, followers, otherFollowers, transactions, settings,
                 followOps, edgeEvents, cfr, pushLog>>
  /\ UNCHANGED <<msgVars, purgeVars, raised>>

\* updateDoc of users/{userId}: followersCount increment(1); setIsFollowing(true);
\* loadUserProfile() only refreshes the displayed profile; finally
\* setFollowLoading(false)
followIncrementFollowers(s) ==
  /\ screens[s].pc = "follow4"
  /\ \E ok \in Outcomes(users[Profile(s)].exists) :
       /\ outcome(users[Profile(s)].exists, ok)
       /\ IF ok
            THEN /\ users' = [users EXCEPT ![Profile(s)] = incrementFollowers(@, 1)]
                 /\ screens' = [screens EXCEPT ![s].pc = "idle",
                                               ![s].followLoading = FALSE,
                                               ![s].isFollowing = TRUE]
            ELSE /\ UNCHANGED users
                 /\ handleFollowFailed(s)
  /\ UNCHANGED <<following, followers, otherFollowers, transactions, settings,
                 followOps, edgeEvents, cfr, pushLog>>
  /\ UNCHANGED <<msgVars, purgeVars, raised>>

\* handleFollow, unfollow branch: deleteDoc of users/{user.uid}/following/{userId}
unfollowDeleteFollowing(s) ==
  /\ screens[s].pc = "idle"
  /\ ~screens[s].followLoading
  /\ screens[s].isFollowing
  /\ mayOccur
  /\ followOps' = followOps + 1
  /\ \E ok \in Outcomes(TRUE) :
       /\ outcome(TRUE, ok)
       /\ IF ok
         THEN /\ following' = [following EXCEPT ![Viewer(s)] = @ \ {Profile(s)}]
              /\ handleFollowAt(s, "unfollow2")
         ELSE /\ UNCHANGED following
              /\ handleFollowFailed(s)
  /\ UNCHANGED <<users, followers, otherFollowers, transactions, settings,
                 edgeEvents, cfr, pushLog>>
  /\ UNCHANGED <<msgVars, purgeVars, raised>>

\* deleteDoc of users/{userId}/followers/{user.uid}
unfollowDeleteFollowers(s) ==
  /\ screens[s].pc = "unfollow2"
  /\ \E ok \in Outcomes(TRUE) :
       /\ outcome(TRUE, ok)
       /\ IF ok
         THEN /\ followers' = [followers EXCEPT ![Profile(s)] = @ \ {Viewer(s)}]
              /\ edgeEvents' = followersWritten(Profile(s), Viewer(s), FALSE)
              /\ handleFollowAt(s, "unfollow3")
         ELSE /\ UNCHANGED <<followers, edgeEvents>>
              /\ handleFollowFailed(s)
  /\ UNCHANGED <<users, following, otherFollowers, transactions, settings,
                 followOps, cfr, pushLog>>
  /\ UNCHANGED <<msgVars, purgeVars, raised>>

\* updateDoc of users/{user.uid}: followingCount increment(-1)
unfollowDecrementFollowing(s) ==
  /\ screens[s].pc = "unfollow3"
  /\ \E ok \in Outcomes(users[Viewer(s)].exists) :
       /\ outcome(users[Viewer(s)].exists, ok)
       /\ IF ok
            THEN /\ users' = [users EXCEPT ![Viewer(s)] = incrementFollowing(@, -1)]
                 /\ handleFollowAt(s, "unfollow4")
            ELSE /\ UNCHANGED users
                 /\ handleFollowFailed(s)
  /\ UNCHANGED <<following, followers, otherFollowers, transactions, settings,
                 followOps, edgeEvents, cfr, pushLog>>
  /\ UNCHANGED <<msgVars, purgeVars, raised>>

\* updateDoc of users/{userId}: followersCount increment(-1);
\* setIsFollowing(false); loadUserProfile(); finally setFollowLoading(false)
unfollowDecrementFollowers(s) ==
  /\ screens[s].pc = "unfollow4"
  /\ \E ok \in Outcomes(users[Profile(s)].exists) :
       /\ outcome(users[Profile(s)].exists, ok)
       /\ IF ok
            THEN /\ users' = [users EXCEPT ![Profile(s)] = incrementFollowers(@, -1)]
                 /\ screens' = [screens EXCEPT ![s].pc = "idle",
                                               ![s].followLoading = FALSE,
                                               ![s].isFollowing = FALSE]
            ELSE /\ UNCHANGED users
                 /\ handleFollowFailed(s)
  /\ UNCHANGED <<following, followers, otherFollowers, transactions, settings,
                 followOps, edgeEvents, cfr, pushLog>>
  /\ UNCHANGED <<msgVars, purgeVars, raised>>

\* ------------------------------------------------------------------------
\* updateFollowerCounts (onWrite of users/{userId}/followers/{followerId})
\* ------------------------------------------------------------------------

\* a handler that counts every write of an existing edge document as a new
\* follower
followerCountsBatchOnAfter(ev) ==
  IF ev.after
    THEN <<[doc |-> ev.userId, field |-> "followersCount", by |-> 1],
           [doc |-> ev.followerId, field |-> "followingCount", by |-> 1]>>
  ELSE IF ev.before
    THEN <<[doc |-> ev.userId, field |-> "followersCount", by |-> -1],
           [doc |-> ev.followerId, field |-> "followingCount", by |-> -1]>>
  ELSE <<>>

\* the batch the handler builds from change.before and change.after
followerCountsBatch(ev) ==
  IF ev.after /\ ~ev.before
    THEN <<[doc |-> ev.userId, field |-> "followersCount", by |-> 1],
           [doc |-> ev.followerId, field |-> "followingCount", by |-> 1]>>
  ELSE IF ~ev.after /\ ev.before
    THEN <<[doc |-> ev.userId, field |-> "followersCount", by |-> -1],
           [doc |-> ev.followerId, field |-> "followingCount", by |-> -1]>>
  ELSE <<>>

\* one delivery of event e: the handler builds the batch and commits it; a
\* commit that throws is caught and logged
updateFollowerCounts(e) ==
  /\ e \in 1..Len(edgeEvents)
  /\ mayDeliver(edgeEvents[e].ufc)
  /\ LET batch == followerCountsBatch(edgeEvents[e])
     IN \E ok \in Outcomes(batchCanCommit(users, batch)) :
          /\ outcome(batchCanCommit(users, batch), ok)
          /\ users' = IF ok THEN batchCommit(users, batch) ELSE users
          /\ raised' = IF ok THEN raised ELSE caught("updateFollowerCounts")
          /\ edgeEvents' = [edgeEvents EXCEPT
               ![e].ufc = @ + 1,
               ![e].applied = IF ok /\ batch # <<>> THEN @ + 1 ELSE @]
  /\ UNCHANGED <<following, followers, otherFollowers, transactions, settings,
                 screens, followOps, cfr, pushLog>>
  /\ UNCHANGED <<msgVars, purgeVars>>

\* ------------------------------------------------------------------------
\* checkFollowerReward (onCreate of users/{userId}/followers/{followerId})
\* ------------------------------------------------------------------------

\* the fields of the user document the handler uses
userDataOf(doc) ==
  [followersCount |-> doc.followersCount,
   rewardClaimed |-> doc.rewardClaimed,
   pushToken |-> doc.pushToken]

\* the invocation moves on to its next request
cfrAt(inv, pc) == cfr' = (cfr (-) SetToBag({inv})) (+) SetToBag({[inv EXCEPT !.pc = pc]})

\* the invocation returns
cfrDone(inv) == cfr' = cfr (-) SetToBag({inv})

\* one delivery of create event e: const userDoc = await userRef.get();
\* const settingsDoc = await ...doc('rewardRule').get(); the test of line 42.
\* No operation writes settings/rewardRule, so the two reads are one step.
checkFollowerRewardRead(e) ==
  /\ e \in 1..Len(edgeEvents)
  /\ isCreate(edgeEvents[e])
  /\ mayDeliver(edgeEvents[e].cfr)
  /\ edgeEvents' = [edgeEvents EXCEPT ![e].cfr = @ + 1]
  /\ LET userId == edgeEvents[e].userId
         userData == userDataOf(users[userId])
         threshold == thresholdOf(settings)
     IN \E ok \in Outcomes(TRUE) :
          /\ outcome(TRUE, ok)
          /\ IF ok /\ users[userId].exists /\ rewardDue(userData, threshold)
               THEN cfr' = cfr (+) SetToBag({[event |-> e,
                                              userId |-> userId,
                                              userData |-> userData,
                                              threshold |-> threshold,
                                              pc |-> "update"]})
               ELSE UNCHANGED cfr
          /\ raised' = IF ok THEN raised ELSE caught("checkFollowerReward")
  /\ UNCHANGED <<users, following, followers, otherFollowers, transactions,
                 settings, screens, followOps, pushLog>>
  /\ UNCHANGED <<msgVars, purgeVars>>

\* an update that sets the flag without the credit
rewardUpdateFlagOnly(doc) == [doc EXCEPT !.rewardClaimed = TRUE]

\* {'wallet.balance': FieldValue.increment(rewardAmount), rewardClaimed: true}
rewardUpdate(doc) ==
  [doc EXCEPT !.balance = @ + rewardAmount, !.rewardClaimed = TRUE]

\* await userRef.update({'wallet.balance': increment(rewardAmount),
\*                       rewardClaimed: true})
checkFollowerRewardUpdate(inv) ==
  /\ inv \in BagToSet(cfr)
  /\ inv.pc = "update"
  /\ \E ok \in Outcomes(users[inv.userId].exists) :
       /\ outcome(users[inv.userId].exists, ok)
       /\ IF ok
            THEN /\ users' = [users EXCEPT ![inv.userId] = rewardUpdate(@)]
                 /\ cfrAt(inv, "transaction")
            ELSE /\ UNCHANGED users
                 /\ cfrDone(inv)
       /\ raised' = IF ok THEN raised ELSE caught("checkFollowerReward")
  /\ UNCHANGED <<following, followers, otherFollowers, transactions, settings,
                 screens, followOps, edgeEvents, pushLog>>
  /\ UNCHANGED <<msgVars, purgeVars>>

\* one POST to the push gateway and whether it succeeded
pushRequest(msg, ok) ==
  [to |-> msg.to, title |-> msg.title, body |-> msg.body, type |-> msg.type,
   delivered |-> ok]

\* a helper that sends the request again when it has failed
sendPushNotificationAgain(log, msg, ok) ==
  IF ok THEN Append(log, pushRequest(msg, ok))
  ELSE Append(Append(log, pushRequest(msg, ok)), pushRequest(msg, TRUE))

\* sendPushNotification(message): one POST to the push gateway, whether it
\* succeeds (ok) or throws; the log holds the requests made
sendPushNotification(log, msg, ok) == Append(log, pushRequest(msg, ok))

\* await ...collection('transactions').add({...}); if (userData.pushToken)
\* await sendPushNotification(message).  The push request touches no
\* document, so it is taken in the same step as the write before it; a
\* failure of it (sent = FALSE) is caught inside the helper.
checkFollowerRewardAddTransaction(inv) ==
  /\ inv \in BagToSet(cfr)
  /\ inv.pc = "transaction"
  /\ \E ok \in Outcomes(TRUE), sent \in Outcomes(TRUE) :
       /\ (~ok \/ inv.userData.pushToken = NoToken) => sent
       /\ outcome(TRUE, ok /\ sent)
       /\ IF ok
            THEN /\ transactions' = [transactions EXCEPT ![inv.userId] =
                      Append(@, rewardTransaction(inv.threshold))]
                 /\ pushLog' = IF inv.userData.pushToken # NoToken
                      THEN sendPushNotification(pushLog,
                             rewardMessage(inv.userData, inv.threshold), sent)
                      ELSE pushLog
                 /\ raised' = IF sent THEN raised
                              ELSE caught("sendPushNotification")
            ELSE /\ UNCHANGED <<transactions, pushLog>>
                 /\ raised' = caught("checkFollowerReward")
  /\ cfrDone(inv)
  /\ UNCHANGED <<users, following, followers, otherFollowers, settings,
                 screens, followOps, edgeEvents>>
  /\ UNCHANGED <<msgVars, purgeVars>>

\* ------------------------------------------------------------------------
\* The follow system: clients following and unfollowing, and the two triggers
\* ------------------------------------------------------------------------

Profiles == {Profile(s) : s \in Screens}

NoChat == [exists |-> FALSE, participants |-> <<>>, lastMessage |-> <<>>]

NoMessage ==
  [exists |-> FALSE, senderId |-> "", senderName |-> Undefined,
   text |-> <<>>, deliveries |-> 0]

Init ==
  /\ otherFollowers \in [Users -> InitialFollowerCounts \cup {0}]
  /\ \A u \in Users : (otherFollowers[u] = 0) <=> (u \notin Profiles)
  /\ \E tokens \in SUBSET Profiles :
       users = [u \in Users |->
                  incrementFollowers(signUp(u \in tokens, u), otherFollowers[u])]
  /\ following = [u \in Users |-> {}]
  /\ followers = [u \in Users |-> {}]
  /\ transactions = [u \in Users |-> <<>>]
  /\ settings = [exists |-> TRUE, followerThreshold |-> <<DefaultThreshold>>]
  /\ screens = [s \in Screens |->
                  [isFollowing |-> FALSE, followLoading |-> FALSE,
                   pc |-> "idle"]]
  /\ followOps = 0
  /\ edgeEvents = <<>>
  /\ cfr = EmptyBag
  /\ pushLog = <<>>
  /\ chat = NoChat
  /\ message = NoMessage
  /\ chatScreen = "idle"
  /\ smn = <<>>
  /\ failures = 0
  /\ raised = {}
  /\ posts = [u \in Users |-> {}]
  /\ comments = [u \in Users |-> {}]
  /\ storage = [u \in Users |-> {}]
  /\ auth = Users
  /\ purge = <<>>

Next ==
  \/ \E s \in Screens : followSetFollowing(s)
  \/ \E s \in Screens : followSetFollowers(s)
  \/ \E s \in Screens : followIncrementFollowing(s)
  \/ \E s \in Screens : followIncrementFollowers(s)
  \/ \E s \in Screens : unfollowDeleteFollowing(s)
  \/ \E s \in Screens : unfollowDeleteFollowers(s)
  \/ \E s \in Screens : unfollowDecrementFollowing(s)
  \/ \E s \in Screens : unfollowDecrementFollowers(s)
  \/ \E e \in 1..Len(edgeEvents) : updateFollowerCounts(e)
  \/ \E e \in 1..Len(edgeEvents) : checkFollowerRewardRead(e)
  \/ \E inv \in BagToSet(cfr) : checkFollowerRewardUpdate(inv)
  \/ \E inv \in BagToSet(cfr) : checkFollowerRewardAddTransaction(inv)

Spec == Init /\ [][Next]_vars

\* ------------------------------------------------------------------------
\* ChatScreen
\* ------------------------------------------------------------------------

\* the user of the mounted ChatScreen, and the other user of the chat
chatUser == "u1"

chatPeer == "u2"

letters == <<"a", "b", "c">>

\* a text of n characters typed into the input: two shapes of letters, and
\* one that begins and ends with a blank
chatInput(n, shape) ==
  [i \in 1..n |->
     IF shape = 2 /\ (i = 1 \/ i = n) THEN " "
     ELSE letters[((i * (shape + 1)) % 3) + 1]]

ChatInputs ==
  {chatInput(n, shape) : n \in (0..MaxTextLen) \cup {120}, shape \in 0..2}

\* String.prototype.trim
RECURSIVE trimStart(_)
trimStart(t) ==
  IF t # <<>> /\ Head(t) = " " THEN trimStart(Tail(t)) ELSE t

RECURSIVE trimEnd(_)
trimEnd(t) ==
  IF t # <<>> /\ t[Len(t)] = " " THEN trimEnd(SubSeq(t, 1, Len(t) - 1)) ELSE t

trim(t) == trimEnd(trimStart(t))

\* userProfile?.displayName || userProfile?.username
senderNameOf(uid) == <<"displayName", uid>>

\* sendMessage: if (!newMessage.trim()) return; await addDoc(messages, ...)
sendMessage(newMessage) ==
  /\ chatScreen = "idle"
  /\ ~message.exists
  /\ trim(newMessage) # <<>>
  /\ \E ok \in Outcomes(TRUE) :
       /\ outcome(TRUE, ok)
       /\ IF ok
            THEN /\ message' = [exists |-> TRUE,
                                senderId |-> chatUser,
                                senderName |-> senderNameOf(chatUser),
                                text |-> trim(newMessage),
                                deliveries |-> 0]
                 /\ chatScreen' = "update"
            ELSE UNCHANGED <<message, chatScreen>>
  /\ UNCHANGED <<users, following, followers, otherFollowers, transactions,
                 settings, screens, followOps, edgeEvents, cfr, pushLog,
                 chat, smn, raised>>
  /\ UNCHANGED purgeVars

\* await updateDoc(chats/{chatId}, {lastMessage: newMessage.trim(), ...})
sendMessageUpdateChat ==
  /\ chatScreen = "update"
  /\ chatScreen' = "idle"
  /\ \E ok \in Outcomes(chat.exists) :
       /\ outcome(chat.exists, ok)
       /\ chat' = IF ok THEN [chat EXCEPT !.lastMessage = message.text]
                  ELSE chat
  /\ UNCHANGED <<users, following, followers, otherFollowers, transactions,
                 settings, screens, followOps, edgeEvents, cfr, pushLog,
                 message, smn, raised>>
  /\ UNCHANGED purgeVars

\* ------------------------------------------------------------------------
\* sendMessageNotification (onCreate of chats/{chatId}/messages/{messageId})
\* ------------------------------------------------------------------------

\* a search that takes the first participant, whoever it is
findRecipientFirst(participants, senderId) ==
  IF participants = <<>> THEN Undefined ELSE <<Head(participants)>>

\* participants.find(id => id !== senderId): <<id>>, or undefined
RECURSIVE findRecipient(_, _)
findRecipient(participants, senderId) ==
  IF participants = <<>> THEN Undefined
  ELSE IF Head(participants) # senderId THEN <<Head(participants)>>
  ELSE findRecipient(Tail(participants), senderId)

\* text.substring(0, end)
substring(text, end) == SubSeq(text, 1, IF end < Len(text) THEN end ELSE Len(text))

\* a preview that also shortens a text of exactly 50 characters
previewOfInclusive(text) ==
  IF Len(text) >= PreviewLength
    THEN substring(text, PreviewLength) \o <<".", ".", ".">>
    ELSE text

\* text.length > 50 ? text.substring(0, 50) + '...' : text
previewOf(text) ==
  IF Len(text) > PreviewLength
    THEN substring(text, PreviewLength) \o <<".", ".", ".">>
    ELSE text

\* the push message of a chat message
messageNotification(recipientData, messageData) ==
  [to |-> recipientData.pushToken,
   title |-> IF messageData.senderName # Undefined
             THEN messageData.senderName ELSE <<"New Message">>,
   body |-> previewOf(messageData.text),
   type |-> "message"]

\* the test of line 104 without the notification preference
mayNotifyAnyToken(recipientData) == recipientData.pushToken # NoToken

\* !(!recipientData.pushToken || !recipientData.settings?.notifications)
mayNotify(recipientData) ==
  recipientData.pushToken # NoToken /\ recipientData.notifications = <<TRUE>>

\* the invocation returns; error tells whether its catch block ran
smnReturn(i, error) ==
  smn' = [smn EXCEPT ![i].pc = "done", ![i].error = error]

\* one delivery of the message's create event:
\* const chatDoc = await db.collection('chats').doc(chatId).get(), and the
\* search for the recipient
sendMessageNotificationGetChat ==
  /\ message.exists
  /\ mayDeliver(message.deliveries)
  /\ message' = [message EXCEPT !.deliveries = @ + 1]
  /\ \E ok \in Outcomes(TRUE) :
       /\ outcome(TRUE, ok)
       /\ LET recipientId == IF ok /\ chat.exists
                             THEN findRecipient(chat.participants, message.senderId)
                             ELSE Undefined
          IN smn' = Append(smn,
               [pc |-> IF recipientId # Undefined THEN "recipient" ELSE "done",
                recipientId |-> recipientId,
                recipientData |-> NoUser,
                dispatched |-> 0,
                error |-> ~ok])
       /\ raised' = IF ok THEN raised ELSE caught("sendMessageNotification")
  /\ UNCHANGED <<users, following, followers, otherFollowers, transactions,
                 settings, screens, followOps, edgeEvents, cfr, pushLog,
                 chat, chatScreen>>
  /\ UNCHANGED purgeVars

\* const recipientDoc = await db.collection('users').doc(recipientId).get(),
\* and the tests of lines 101 and 104
sendMessageNotificationGetRecipient(i) ==
  /\ i \in 1..Len(smn)
  /\ smn[i].pc = "recipient"
  /\ \E ok \in Outcomes(TRUE) :
       /\ outcome(TRUE, ok)
       /\ LET recipientDoc == users[smn[i].recipientId[1]]
          IN IF ok /\ recipientDoc.exists /\ mayNotify(recipientDoc)
               THEN smn' = [smn EXCEPT ![i].pc = "push",
                                       ![i].recipientData = recipientDoc]
               ELSE smnReturn(i, ~ok)
       /\ raised' = IF ok THEN raised ELSE caught("sendMessageNotification")
  /\ UNCHANGED <<users, following, followers, otherFollowers, transactions,
                 settings, screens, followOps, edgeEvents, cfr, pushLog,
                 chat, message, chatScreen>>
  /\ UNCHANGED purgeVars

\* await sendPushNotification(message); a failure of the request is caught
\* inside the helper
sendMessageNotificationPush(i) ==
  /\ i \in 1..Len(smn)
  /\ smn[i].pc = "push"
  /\ \E ok \in Outcomes(TRUE) :
       /\ outcome(TRUE, ok)
       /\ pushLog' = sendPushNotification(pushLog,
                       messageNotification(smn[i].recipientData, message), ok)
       /\ raised' = IF ok THEN raised ELSE caught("sendPushNotification")
  /\ smn' = [smn EXCEPT ![i].pc = "done", ![i].dispatched = @ + 1]
  /\ UNCHANGED <<users, following, followers, otherFollowers, transactions,
                 settings, screens, followOps, edgeEvents, cfr, chat, message,
                 chatScreen>>
  /\ UNCHANGED purgeVars

\* ------------------------------------------------------------------------
\* The chat system: one message sent in one chat, and its trigger
\* ------------------------------------------------------------------------

\* the recipient's profile: absent, or with or without a push token and with
\* notifications switched on or off in the settings screen
RecipientDocs ==
  {NoUser} \cup
  {[signUp(hasToken, chatPeer) EXCEPT !.notifications = <<enabled>>] :
     hasToken \in BOOLEAN, enabled \in BOOLEAN}

\* the chat as handleMessage of either user created it, with the peer removed
\* by an account purge, or deleted
ChatDocs ==
  {NoChat} \cup
  {[exists |-> TRUE, participants |-> p, lastMessage |-> <<>>] :
     p \in {<<chatUser, chatPeer>>, <<chatPeer, chatUser>>, <<chatUser>>}}

InitMsg ==
  /\ \E recipientDoc \in RecipientDocs :
       users = [u \in Users |->
                  IF u = chatPeer THEN recipientDoc ELSE signUp(FALSE, u)]
  /\ chat \in ChatDocs
  /\ message = NoMessage
  /\ chatScreen = "idle"
  /\ smn = <<>>
  /\ pushLog = <<>>
  /\ failures = 0
  /\ otherFollowers = [u \in Users |-> 0]
  /\ following = [u \in Users |-> {}]
  /\ followers = [u \in Users |-> {}]
  /\ transactions = [u \in Users |-> <<>>]
  /\ settings = [exists |-> TRUE, followerThreshold |-> <<DefaultThreshold>>]
  /\ screens = [s \in Screens |->
                  [isFollowing |-> FALSE, followLoading |-> FALSE,
                   pc |-> "idle"]]
  /\ followOps = 0
  /\ edgeEvents = <<>>
  /\ cfr = EmptyBag
  /\ raised = {}
  /\ posts = [u \in Users |-> {}]
  /\ comments = [u \in Users |-> {}]
  /\ storage = [u \in Users |-> {}]
  /\ auth = Users
  /\ purge = <<>>

NextMsg ==
  \/ \E newMessage \in ChatInputs : sendMessage(newMessage)
  \/ sendMessageUpdateChat
  \/ sendMessageNotificationGetChat
  \/ \E i \in 1..Len(smn) : sendMessageNotificationGetRecipient(i)
  \/ \E i \in 1..Len(smn) : sendMessageNotificationPush(i)

SpecMsg == InitMsg /\ [][NextMsg]_vars

\* ------------------------------------------------------------------------
\* deleteUserAccount (https.onCall)
\* ------------------------------------------------------------------------

NoAuth == <<>>

\* context of a call: context.auth is undefined, or carries the caller's uid
Contexts == {[auth |-> NoAuth]} \cup {[auth |-> <<u>>] : u \in Users}

\* data of a call: empty, or naming a user to delete
Payloads == {Undefined} \cup {<<u>> : u \in Users}

\* if (!context.auth) throw ...
authenticated(context) == context.auth # NoAuth

\* a handler that deletes the user named in the request payload
purgeUserIdFromPayload(context, data) ==
  IF data # Undefined THEN data[1] ELSE context.auth[1]

\* const userId = context.auth.uid
purgeUserId(context, data) == context.auth[1]

\* the requests of the handler, in the order of its awaits
purgeRequests ==
  <<"posts", "comments", "chats", "following", "followers", "transactions",
    "commit", "files", "auth">>

purgeReads ==
  {"posts", "comments", "chats", "following", "followers", "transactions"}

\* an invocation that has been called and has made no request
purgeRequested(context, userId) ==
  [auth |-> context.auth, userId |-> userId, pc |-> "posts",
   error |-> "", success |-> FALSE,
   postDocs |-> {}, commentDocs |-> {}, chatOp |-> "none", chatRead |-> NoChat,
   followingDocs |-> {}, followerDocs |-> {}, otherFollowerDocs |-> 0,
   transactionDocs |-> 0, attempted |-> {}, completed |-> {}]

\* a rejection that reports the generic error
purgeRejectedInternal(context) ==
  [purgeRequested(context, "") EXCEPT !.pc = "failed", !.error = "internal"]

\* throw new functions.https.HttpsError('unauthenticated', ...)
purgeRejected(context) ==
  [purgeRequested(context, "") EXCEPT
     !.pc = "failed", !.error = "unauthenticated"]

\* an order of the requests in which the files are deleted before the commit
purgeAfterFilesFirst(pc) ==
  IF pc = "transactions" THEN "files"
  ELSE IF pc = "files" THEN "commit"
  ELSE IF pc = "commit" THEN "auth"
  ELSE IF pc = "auth" THEN "done"
  ELSE CHOOSE next \in purgeReads :
         \E k \in 1..5 : purgeRequests[k] = pc /\ purgeRequests[k + 1] = next

\* the request after request pc; after the last one the handler returns
purgeAfter(pc) ==
  IF pc = "auth" THEN "done"
  ELSE CHOOSE next \in {purgeRequests[k] : k \in 1..Len(purgeRequests)} :
         \E k \in 1..(Len(purgeRequests) - 1) :
           purgeRequests[k] = pc /\ purgeRequests[k + 1] = next

\* request inv.pc has succeeded: the handler goes on; after deleteUser it
\* returns {success: true}
purgeSucceeded(inv) ==
  [inv EXCEPT !.pc = purgeAfter(inv.pc),
              !.success = (purgeAfter(inv.pc) = "done"),
              !.attempted = @ \cup {inv.pc},
              !.completed = @ \cup {inv.pc}]

\* a catch block that goes on with the next request
purgeFailedContinues(inv) ==
  [inv EXCEPT !.pc = purgeAfter(inv.pc),
              !.success = (purgeAfter(inv.pc) = "done"),
              !.attempted = @ \cup {inv.pc}]

\* a catch block that reports success
purgeFailedSilently(inv) ==
  [inv EXCEPT !.pc = "done", !.success = TRUE,
              !.attempted = @ \cup {inv.pc}]

\* request inv.pc has thrown: catch (error) { console.error(...); throw new
\* functions.https.HttpsError('internal', ...) }
purgeFailed(inv) ==
  [inv EXCEPT !.pc = "failed", !.error = "internal",
              !.attempted = @ \cup {inv.pc}]

\* a call arrives: the authentication check, and userId
deleteUserAccount(context, data) ==
  /\ mayOccur
  /\ purge' = Append(purge,
       IF ~authenticated(context) THEN purgeRejected(context)
       ELSE purgeRequested(context, purgeUserId(context, data)))
  /\ UNCHANGED <<followVars, pushLog, msgVars, failures, raised, posts,
                 comments, storage, auth>>

\* a loop that deletes every chat of the user
chatBatchOpDelete(chatDoc, userId) ==
  IF ~chatDoc.exists \/ \A k \in 1..Len(chatDoc.participants) :
                          chatDoc.participants[k] # userId
    THEN "none"
  ELSE "delete"

\* where('participants', 'array-contains', userId), and the loop over the
\* result: batch.delete if participants.length === 1, else batch.update with
\* arrayRemove(userId)
chatBatchOp(chatDoc, userId) ==
  IF ~chatDoc.exists \/ \A k \in 1..Len(chatDoc.participants) :
                          chatDoc.participants[k] # userId
    THEN "none"
  ELSE IF Len(chatDoc.participants) = 1 THEN "delete"
  ELSE "update"

\* the result of one query, kept in the batch of the invocation
purgeRead(inv) ==
  LET u == inv.userId
  IN CASE inv.pc = "posts" -> [inv EXCEPT !.postDocs = posts[u]]
       [] inv.pc = "comments" -> [inv EXCEPT !.commentDocs = comments[u]]
       [] inv.pc = "chats" ->
            [inv EXCEPT !.chatOp = chatBatchOp(chat, u),
                        !.chatRead = IF chatBatchOp(chat, u) = "none"
                                       THEN NoChat ELSE chat]
       [] inv.pc = "following" -> [inv EXCEPT !.followingDocs = following[u]]
       [] inv.pc = "followers" ->
            [inv EXCEPT !.followerDocs = followers[u],
                        !.otherFollowerDocs = otherFollowers[u]]
       [] inv.pc = "transactions" ->
            [inv EXCEPT !.transactionDocs = Len(transactions[u])]

\* one of the six queries that fill the batch
deleteUserAccountRead(i) ==
  /\ i \in 1..Len(purge)
  /\ purge[i].pc \in purgeReads
  /\ \E ok \in Outcomes(TRUE) :
       /\ outcome(TRUE, ok)
       /\ purge' = [purge EXCEPT ![i] =
            IF ok THEN purgeSucceeded(purgeRead(@)) ELSE purgeFailed(@)]
  /\ UNCHANGED <<followVars, pushLog, msgVars, raised, posts, comments,
                 storage, auth>>

\* FieldValue.arrayRemove(userId)
arrayRemove(participants, userId) ==
  SelectSeq(participants, LAMBDA id : id # userId)

\* the chat document after the batch's operation on it
chatAfter(chatDoc, op, userId) ==
  IF op = "delete" THEN NoChat
  ELSE IF op = "update"
    THEN [chatDoc EXCEPT !.participants = arrayRemove(@, userId)]
  ELSE chatDoc

\* the write events of the followers edge documents that the batch deletes
RECURSIVE followersDeleted(_, _, _)
followersDeleted(events, userId, ids) ==
  IF ids = {} THEN events
  ELSE LET id == CHOOSE x \in ids : TRUE
       IN followersDeleted(
            Append(events, edgeEvent(userId, id, TRUE, FALSE)),
            userId, ids \ {id})

\* await batch.commit(): the user document and every document found by the
\* queries are deleted and the chat is deleted or updated, all or nothing; an
\* update of a chat that no longer exists is rejected
deleteUserAccountCommit(i) ==
  /\ i \in 1..Len(purge)
  /\ purge[i].pc = "commit"
  /\ LET inv == purge[i]
         u == inv.userId
         valid == inv.chatOp = "update" => chat.exists
     IN \E ok \in Outcomes(valid) :
          /\ outcome(valid, ok)
          /\ purge' = [purge EXCEPT ![i] =
               IF ok THEN purgeSucceeded(@) ELSE purgeFailed(@)]
          /\ IF ok
               THEN /\ users' = [users EXCEPT ![u] = NoUser]
                    /\ posts' = [posts EXCEPT ![u] = @ \ inv.postDocs]
                    /\ comments' = [comments EXCEPT ![u] = @ \ inv.commentDocs]
                    /\ chat' = chatAfter(chat, inv.chatOp, u)
                    /\ following' = [following EXCEPT ![u] = @ \ inv.followingDocs]
                    /\ followers' = [followers EXCEPT ![u] = @ \ inv.followerDocs]
                    /\ otherFollowers' = [otherFollowers EXCEPT ![u] =
                         IF @ > inv.otherFollowerDocs
                           THEN @ - inv.otherFollowerDocs ELSE 0]
                    /\ edgeEvents' = followersDeleted(edgeEvents, u,
                         inv.followerDocs \cap followers[u])
                    /\ transactions' = [transactions EXCEPT ![u] =
                         SubSeq(@, inv.transactionDocs + 1, Len(@))]
               ELSE UNCHANGED <<users, posts, comments, chat, following,
                                followers, otherFollowers, edgeEvents,
                                transactions>>
  /\ UNCHANGED <<settings, screens, followOps, cfr, pushLog, message,
                 chatScreen, smn, raised, storage, auth>>

\* await bucket.deleteFiles({prefix: `users/${userId}/`})
deleteUserAccountDeleteFiles(i) ==
  /\ i \in 1..Len(purge)
  /\ purge[i].pc = "files"
  /\ \E ok \in Outcomes(TRUE) :
       /\ outcome(TRUE, ok)
       /\ purge' = [purge EXCEPT ![i] =
            IF ok THEN purgeSucceeded(@) ELSE purgeFailed(@)]
       /\ storage' = IF ok THEN [storage EXCEPT ![purge[i].userId] = {}]
                     ELSE storage
  /\ UNCHANGED <<followVars, pushLog, msgVars, raised, posts, comments, auth>>

\* await admin.auth().deleteUser(userId): rejected when the credential does
\* not exist; return {success: true}
deleteUserAccountDeleteUser(i) ==
  /\ i \in 1..Len(purge)
  /\ purge[i].pc = "auth"
  /\ LET valid == purge[i].userId \in auth
     IN \E ok \in Outcomes(valid) :
          /\ outcome(valid, ok)
          /\ purge' = [purge EXCEPT ![i] =
               IF ok THEN purgeSucceeded(@) ELSE purgeFailed(@)]
          /\ auth' = IF ok THEN auth \ {purge[i].userId} ELSE auth
  /\ UNCHANGED <<followVars, pushLog, msgVars, raised, posts, comments,
                 storage>>

\* ------------------------------------------------------------------------
\* Account purge: callers of deleteUserAccount, next to the follow system
\* ------------------------------------------------------------------------

\* the message of the chat between chatUser and chatPeer
sentMessage ==
  [exists |-> TRUE, senderId |-> chatUser, senderName |-> senderNameOf(chatUser),
   text |-> chatInput(3, 0), deliveries |-> 0]

\* Three accounts with a post, a comment and an avatar each, and a reward
\* rule of one follower.  Either nobody follows anybody, or u1 has followed u3
\* (both counters were incremented by handleFollow and by
\* updateFollowerCounts) and u3 was rewarded.  u1 has opened a chat with u2
\* and has sent one message.
InitPurge ==
  /\ otherFollowers = [u \in Users |-> 0]
  /\ \E followed \in BOOLEAN :
       /\ users = [u \in Users |->
            IF followed /\ u = "u3"
              THEN [incrementFollowers(signUp(FALSE, u), 2) EXCEPT
                      !.balance = rewardAmount, !.rewardClaimed = TRUE]
            ELSE IF followed /\ u = "u1"
              THEN incrementFollowing(signUp(FALSE, u), 2)
            ELSE signUp(FALSE, u)]
       /\ following = [u \in Users |->
            IF followed /\ u = "u1" THEN {"u3"} ELSE {}]
       /\ followers = [u \in Users |->
            IF followed /\ u = "u3" THEN {"u1"} ELSE {}]
       /\ transactions = [u \in Users |->
            IF followed /\ u = "u3" THEN <<rewardTransaction(<<1>>)>> ELSE <<>>]
       /\ screens = [s \in Screens |->
                       [isFollowing |-> (followed /\ s = <<"u1", "u3">>),
                        followLoading |-> FALSE, pc |-> "idle"]]
  /\ settings = [exists |-> TRUE, followerThreshold |-> <<1>>]
  /\ followOps = 0
  /\ edgeEvents = <<>>
  /\ cfr = EmptyBag
  /\ pushLog = <<>>
  /\ chat = [exists |-> TRUE, participants |-> <<chatUser, chatPeer>>,
             lastMessage |-> sentMessage.text]
  /\ message = sentMessage
  /\ chatScreen = "idle"
  /\ smn = <<>>
  /\ failures = 0
  /\ raised = {}
  /\ posts = [u \in Users |-> {1}]
  /\ comments = [u \in Users |-> {1}]
  /\ storage = [u \in Users |-> {"avatar"}]
  /\ auth = Users
  /\ purge = <<>>

NextPurge ==
  \/ Next
  \/ \E context \in Contexts, data \in Payloads : deleteUserAccount(context, data)
  \/ \E i \in 1..Len(purge) : deleteUserAccountRead(i)
  \/ \E i \in 1..Len(purge) : deleteUserAccountCommit(i)
  \/ \E i \in 1..Len(purge) : deleteUserAccountDeleteFiles(i)
  \/ \E i \in 1..Len(purge) : deleteUserAccountDeleteUser(i)

SpecPurge == InitPurge /\ [][NextPurge]_vars

\* a running invocation makes its next request, and the request resolves or
\* rejects
deleteUserAccountStep ==
  \E i \in 1..Len(purge) :
    \/ deleteUserAccountRead(i)
    \/ deleteUserAccountCommit(i)
    \/ deleteUserAccountDeleteFiles(i)
    \/ deleteUserAccountDeleteUser(i)

\* the callers of deleteUserAccount alone
NextPurgeCalls ==
  \/ \E context \in Contexts, data \in Payloads : deleteUserAccount(context, data)
  \/ deleteUserAccountStep

\* every request of a running invocation is answered
SpecPurgeFair ==
  InitPurge /\ [][NextPurgeCalls]_vars /\ WF_vars(deleteUserAccountStep)

\* ------------------------------------------------------------------------
\* The trigger handlers alone, on events that wait for delivery
\* ------------------------------------------------------------------------

\* u1 has followed u3, who had 4999 followers (handleFollow has made its four
\* writes), and has sent a message in the chat with u2; the create events of
\* the followers edge and of the message have not been delivered yet
InitHandlers ==
  /\ otherFollowers = [u \in Users |->
       IF u = "u3" THEN DefaultThreshold - 1 ELSE 0]
  /\ \E hasToken \in BOOLEAN, recipientDoc \in RecipientDocs :
       users = [u \in Users |->
         IF u = "u3"
           THEN incrementFollowers(signUp(hasToken, u), otherFollowers[u] + 1)
         ELSE IF u = chatPeer THEN recipientDoc
         ELSE incrementFollowing(signUp(FALSE, u), 1)]
  /\ following = [u \in Users |-> IF u = "u1" THEN {"u3"} ELSE {}]
  /\ followers = [u \in Users |-> IF u = "u3" THEN {"u1"} ELSE {}]
  /\ transactions = [u \in Users |-> <<>>]
  /\ settings = [exists |-> TRUE, followerThreshold |-> <<DefaultThreshold>>]
  /\ screens = [s \in Screens |->
                  [isFollowing |-> (s = <<"u1", "u3">>),
                   followLoading |-> FALSE, pc |-> "idle"]]
  /\ followOps = 0
  /\ edgeEvents = <<[userId |-> "u3", followerId |-> "u1",
                     before |-> FALSE, after |-> TRUE,
                     ufc |-> 0, cfr |-> 0, applied |-> 0,
                     afterReward |-> FALSE]>>
  /\ cfr = EmptyBag
  /\ pushLog = <<>>
  /\ chat \in ChatDocs
  /\ message = sentMessage
  /\ chatScreen = "idle"
  /\ smn = <<>>
  /\ failures = 0
  /\ raised = {}
  /\ posts = [u \in Users |-> {}]
  /\ comments = [u \in Users |-> {}]
  /\ storage = [u \in Users |-> {}]
  /\ auth = Users
  /\ purge = <<>>

NextHandlers ==
  \/ \E e \in 1..Len(edgeEvents) : updateFollowerCounts(e)
  \/ \E e \in 1..Len(edgeEvents) : checkFollowerRewardRead(e)
  \/ \E inv \in BagToSet(cfr) : checkFollowerRewardUpdate(inv)
  \/ \E inv \in BagToSet(cfr) : checkFollowerRewardAddTransaction(inv)
  \/ sendMessageNotificationGetChat
  \/ \E i \in 1..Len(smn) : sendMessageNotificationGetRecipient(i)
  \/ \E i \in 1..Len(smn) : sendMessageNotificationPush(i)

SpecHandlers == InitHandlers /\ [][NextHandlers]_vars

\* ------------------------------------------------------------------------
\* The follow system on backfilled data
\* ------------------------------------------------------------------------

\* follower counts at or above the threshold
BackfilledFollowerCounts == {DefaultThreshold, DefaultThreshold + 1}

\* as Init, but the followed user already has the followers of the milestone
\* and no reward
InitBackfill ==
  /\ otherFollowers \in [Users -> BackfilledFollowerCounts \cup {0}]
  /\ \A u \in Users : (otherFollowers[u] = 0) <=> (u \notin Profiles)
  /\ \E tokens \in SUBSET Profiles :
       users = [u \in Users |->
                  incrementFollowers(signUp(u \in tokens, u), otherFollowers[u])]
  /\ following = [u \in Users |-> {}]
  /\ followers = [u \in Users |-> {}]
  /\ transactions = [u \in Users |-> <<>>]
  /\ settings = [exists |-> TRUE, followerThreshold |-> <<DefaultThreshold>>]
  /\ screens = [s \in Screens |->
                  [isFollowing |-> FALSE, followLoading |-> FALSE,
                   pc |-> "idle"]]
  /\ followOps = 0
  /\ edgeEvents = <<>>
  /\ cfr = EmptyBag
  /\ pushLog = <<>>
  /\ chat = NoChat
  /\ message = NoMessage
  /\ chatScreen = "idle"
  /\ smn = <<>>
  /\ failures = 0
  /\ raised = {}
  /\ posts = [u \in Users |-> {}]
  /\ comments = [u \in Users |-> {}]
  /\ storage = [u \in Users |-> {}]
  /\ auth = Users
  /\ purge = <<>>

SpecBackfill == InitBackfill /\ [][Next]_vars

\* ------------------------------------------------------------------------
\* Properties of the follow system
\* ------------------------------------------------------------------------

\* no handleFollow call is in flight
clientsIdle == \A s \in Screens : screens[s].pc = "idle"

\* a checkFollowerReward invocation for user u is running
rewardRunning(u) == \E inv \in BagToSet(cfr) : inv.userId = u

\* every event has been delivered to every trigger it matches
allDelivered ==
  \A e \in 1..Len(edgeEvents) :
    /\ edgeEvents[e].ufc >= 1
    /\ isCreate(edgeEvents[e]) => edgeEvents[e].cfr >= 1

\* no event has been delivered twice to the same trigger
noneRedelivered == redeliveries(edgeEvents) = 0

\* C1: the milestone reward is issued at most once per user under any
\* interleaving: once every checkFollowerReward invocation for a user has
\* finished (each event delivered once, no request failed), a user whose
\* reward was claimed has been credited exactly one reward amount and has
\* exactly one reward Transaction.
C1_RewardIssuedOnce ==
  \A u \in Users :
    (failures = 0 /\ allDelivered /\ noneRedelivered /\ ~rewardRunning(u)
       /\ users[u].rewardClaimed)
      => /\ users[u].balance = rewardAmount
         /\ Len(transactions[u]) = 1

\* C2: once no follow/unfollow operation and no handler is in flight, no event
\* was delivered twice (and no request failed), followersCount of every user
\* equals the number of its followers edge documents and followingCount the
\* number of its following edge documents.
C2_CountersMatchEdges ==
  (failures = 0 /\ clientsIdle /\ allDelivered /\ noneRedelivered
     /\ cfr = EmptyBag)
    => \A u \in Users :
         /\ users[u].followersCount
              = otherFollowers[u] + Cardinality(followers[u])
         /\ users[u].followingCount = Cardinality(following[u])

\* C3: with threshold 5000, when a user with 4999 followers and no reward
\* gains one follower, then once the handlers triggered by that event have
\* finished (each delivered once, no request failed) followersCount is 5000,
\* the balance has grown by the reward amount, rewardClaimed is true, one
\* reward Transaction exists and, if the user has a push token, one
\* notification was dispatched, whichever handler ran first.
C3_MilestoneReached ==
  \A u \in Users :
    (/\ otherFollowers[u] = DefaultThreshold - 1
     /\ thresholdOf(settings) = <<DefaultThreshold>>
     /\ failures = 0
     /\ Len(edgeEvents) = 1
     /\ edgeEvents[1].userId = u
     /\ isCreate(edgeEvents[1])
     /\ edgeEvents[1].ufc = 1
     /\ edgeEvents[1].cfr = 1
     /\ ~rewardRunning(u))
      => /\ users[u].followersCount = DefaultThreshold
         /\ users[u].balance = rewardAmount
         /\ users[u].rewardClaimed
         /\ Len(transactions[u]) = 1
         /\ transactions[u][1].type = "reward"
         /\ users[u].pushToken # NoToken => Len(pushLog) = 1

\* C4: once a reward has been issued to a user, the checkFollowerReward
\* invocation of every follower edge created later never reaches its writes:
\* it leaves wallet.balance unchanged and adds no Transaction.
C4_NoRewardAfterClaim ==
  \A inv \in BagToSet(cfr) : ~edgeEvents[inv.event].afterReward

\* a follower edge was created after the reward had been issued, and
\* checkFollowerReward has handled its event
C4_Witness ==
  \E e \in 1..Len(edgeEvents) :
    /\ isCreate(edgeEvents[e])
    /\ edgeEvents[e].afterReward
    /\ edgeEvents[e].cfr >= 1
    /\ users[edgeEvents[e].userId].balance = rewardAmount

\* the counter change of one updateFollowerCounts batch for event ev
countDelta(ev) == IF isCreate(ev) THEN 1 ELSE IF isDelete(ev) THEN -1 ELSE 0

\* C5: every updateFollowerCounts invocation changes followersCount of the
\* followed user and followingCount of the follower together, by +1 for a
\* created edge and by -1 for a deleted edge, or changes nothing at all: no
\* step of it changes only one of the two counters.
C5_CountersChangeTogether ==
  [][\A e \in 1..Len(edgeEvents) :
       edgeEvents'[e].ufc = edgeEvents[e].ufc + 1
         => LET ev == edgeEvents[e]
                d == countDelta(ev)
            IN \/ users' = users
               \/ /\ d # 0
                  /\ users' = [users EXCEPT
                       ![ev.userId].followersCount =
                          users[ev.userId].followersCount + d,
                       ![ev.followerId].followingCount =
                          users[ev.followerId].followingCount + d]]_vars

\* updateFollowerCounts has committed a batch for a created edge and one for
\* a deleted edge
C5_Witness ==
  /\ \E e \in 1..Len(edgeEvents) :
       isCreate(edgeEvents[e]) /\ edgeEvents[e].applied >= 1
  /\ \E e \in 1..Len(edgeEvents) :
       isDelete(edgeEvents[e]) /\ edgeEvents[e].applied >= 1

\* C6: re-delivery of an edge event to updateFollowerCounts does not
\* double-count: however often the event of one edge transition is delivered,
\* at most one counter batch is committed for it.
C6_RedeliveryCountsOnce ==
  \A e \in 1..Len(edgeEvents) : edgeEvents[e].applied <= 1

\* C7: whenever no follow/unfollow operation is in flight, users/A/following/B
\* exists if and only if users/B/followers/A exists, for all users A and B,
\* also after a handleFollow that failed partway through its writes.
C7_EdgesMirrored ==
  clientsIdle
    => \A a \in Users : \A b \in Users :
         (b \in following[a]) <=> (a \in followers[b])

\* C8: the effects of a reward are all-or-nothing: while no checkFollowerReward
\* invocation for a user is running, either the balance was credited,
\* rewardClaimed is true and a reward Transaction exists, or none of the three.
C8_RewardAllOrNothing ==
  \A u \in Users :
    ~rewardRunning(u)
      => \/ /\ users[u].balance >= rewardAmount
            /\ users[u].rewardClaimed
            /\ Len(transactions[u]) >= 1
         \/ /\ users[u].balance = 0
            /\ ~users[u].rewardClaimed
            /\ Len(transactions[u]) = 0

\* ------------------------------------------------------------------------
\* Properties of the chat system
\* ------------------------------------------------------------------------

\* the recipient of the message according to the stored chat document
storedRecipient ==
  IF chat.exists THEN findRecipient(chat.participants, message.senderId)
  ELSE Undefined

\* the stored recipient has a push token and notifications enabled
recipientReachable ==
  /\ storedRecipient # Undefined
  /\ users[storedRecipient[1]].exists
  /\ users[storedRecipient[1]].pushToken # NoToken
  /\ users[storedRecipient[1]].notifications = <<TRUE>>

\* C9: an invocation of sendMessageNotification dispatches nothing when the
\* recipient has notifications disabled or has no push token, and exactly one
\* notification when the recipient it read has a token and notifications
\* enabled; every dispatched notification is a request to the push gateway.
C9_NotifyOnlyIfEnabled ==
  /\ \A i \in 1..Len(smn) :
       /\ smn[i].pc # "done" => smn[i].dispatched = 0
       /\ (smn[i].pc = "done" /\ ~recipientReachable) => smn[i].dispatched = 0
       /\ (smn[i].pc = "done" /\ recipientReachable /\ ~smn[i].error)
            => smn[i].dispatched = 1
       /\ smn[i].dispatched <= 1
  /\ Cardinality({i \in 1..Len(smn) : smn[i].dispatched = 1}) = Len(pushLog)
  /\ \A k \in 1..Len(pushLog) :
       pushLog[k].to = users[storedRecipient[1]].pushToken

\* an invocation has returned after dispatching a notification to a recipient
\* with a push token and notifications enabled
C9_Witness ==
  \E i \in 1..Len(smn) :
    smn[i].pc = "done" /\ smn[i].dispatched = 1 /\ recipientReachable

\* C10: the body of a dispatched message notification is the message text
\* itself when the text has at most 50 characters, and otherwise its first 50
\* characters followed by three dots.
C10_PreviewBody ==
  \A k \in 1..Len(pushLog) :
    pushLog[k].type = "message"
      => LET t == message.text
             b == pushLog[k].body
         IN /\ Len(t) <= PreviewLength => b = t
            /\ Len(t) > PreviewLength
                 => /\ Len(b) = PreviewLength + 3
                    /\ \A j \in 1..PreviewLength : b[j] = t[j]
                    /\ \A j \in (PreviewLength + 1)..(PreviewLength + 3) :
                         b[j] = "."

\* a notification was dispatched for a message of 120 characters
C10_Witness ==
  /\ Len(message.text) = 120
  /\ \E k \in 1..Len(pushLog) : pushLog[k].type = "message"

\* ------------------------------------------------------------------------
\* Properties of the account purge
\* ------------------------------------------------------------------------

\* the documents, storage objects and credentials
stored ==
  <<users, posts, comments, chat, message, following, followers,
    otherFollowers, transactions, settings, storage, auth>>

\* C11: deleteUserAccount called without an authenticated caller is rejected
\* at once with the error 'unauthenticated' and has no side effect: the call
\* changes no document, storage object or credential, the invocation makes no
\* request, and it never acts afterwards.
C11_UnauthenticatedRejected ==
  [][\A i \in 1..Len(purge') :
       purge'[i].auth = NoAuth
         => /\ purge'[i].pc = "failed"
            /\ purge'[i].error = "unauthenticated"
            /\ ~purge'[i].success
            /\ purge'[i].attempted = {}
            /\ i > Len(purge) => UNCHANGED stored
            /\ i <= Len(purge) => purge'[i] = purge[i]]_vars

\* an unauthenticated call was rejected
C11_Witness ==
  \E i \in 1..Len(purge) : purge[i].auth = NoAuth /\ purge[i].pc = "failed"

\* invocation i has acted in the step
purgeActed(i) == i \in 1..Len(purge) /\ purge'[i] # purge[i]

\* C12: deleteUserAccount only ever purges the authenticated caller: the user
\* an invocation deletes is context.auth.uid whatever the payload, two calls
\* of one caller with different payloads delete the same user, and a profile,
\* post, comment, transaction, storage object or credential of a user is
\* deleted only in a step of an invocation called by that user.
C12_OnlyCallerPurged ==
  [][/\ \A i \in 1..Len(purge') :
          purge'[i].auth # NoAuth => purge'[i].userId = purge'[i].auth[1]
     /\ \A context \in Contexts : \A d1 \in Payloads : \A d2 \in Payloads :
          authenticated(context)
            => purgeUserId(context, d1) = purgeUserId(context, d2)
     /\ \A v \in Users :
          (\/ users[v].exists /\ ~users'[v].exists
           \/ posts[v] \ posts'[v] # {}
           \/ comments[v] \ comments'[v] # {}
           \/ Len(transactions'[v]) < Len(transactions[v])
           \/ storage[v] \ storage'[v] # {}
           \/ v \in auth \ auth')
            => \E i \in 1..Len(purge) :
                 purgeActed(i) /\ purge[i].auth = <<v>>]_vars

\* a purge called with a payload has deleted its caller's profile and
\* credential
C12_Witness ==
  \E i \in 1..Len(purge) :
    /\ purge[i].success
    /\ ~users[purge[i].userId].exists
    /\ purge[i].userId \notin auth

\* user v has not been purged: no invocation of v has committed its batch
remains(v) ==
  \A j \in 1..Len(purge) :
    purge[j].userId = v => "commit" \notin purge[j].completed

\* C13: when a purge of U returns {success: true}, a chat whose participants
\* were exactly {U} has been deleted, and a chat whose participants were U and
\* a remaining user V still exists with participants exactly {V}; the message
\* documents are unchanged.
C13_ChatsOfPurgedUser ==
  [][\A i \in 1..Len(purge) :
       (purge'[i].success /\ ~purge[i].success)
         => LET u == purge[i].userId
                was == purge[i].chatRead.participants
            IN /\ was = <<u>> => ~chat'.exists
               /\ (Len(was) = 2 /\ \A k \in 1..2 : was[k] # u => remains(was[k]))
                    => /\ chat'.exists
                       /\ chat'.participants = arrayRemove(was, u)
                       /\ Len(chat'.participants) = 1
               /\ message' = message]_vars

\* purges have returned {success: true} both for one of two participants and
\* for a sole participant of the chat
C13_Witness ==
  /\ \E i \in 1..Len(purge) : purge[i].success /\ purge[i].chatOp = "update"
  /\ \E i \in 1..Len(purge) : purge[i].success /\ purge[i].chatOp = "delete"

\* C14: when deleteUserAccount for U returns {success: true}, users/U does not
\* exist, no post and no comment of U exists, users/U/following,
\* users/U/followers and users/U/transactions are empty, no storage object
\* exists under users/U/, and U's credential does not exist.
C14_NothingLeftAfterPurge ==
  [][\A i \in 1..Len(purge) :
       (purge'[i].success /\ ~purge[i].success)
         => LET u == purge[i].userId
            IN /\ ~users'[u].exists
               /\ posts'[u] = {}
               /\ comments'[u] = {}
               /\ following'[u] = {}
               /\ followers'[u] = {}
               /\ otherFollowers'[u] = 0
               /\ transactions'[u] = <<>>
               /\ storage'[u] = {}
               /\ u \notin auth']_vars

\* C15 (safety): the requests of an invocation are made in order: storage
\* objects are deleted only after the batch has committed, the credential is
\* revoked only after the storage deletion has completed, and {success: true}
\* is returned only after the credential was revoked.
purgeInOrder ==
  \A i \in 1..Len(purge) :
    /\ "files" \in purge[i].attempted => "commit" \in purge[i].completed
    /\ "auth" \in purge[i].attempted => "files" \in purge[i].completed
    /\ purge[i].success <=> "auth" \in purge[i].completed
    /\ purge[i].success => purge[i].pc = "done"
    /\ purge[i].pc = "done" => purge[i].success
    /\ purge[i].pc = "failed" <=> purge[i].error # ""

\* invocation i has returned {success: true} or has thrown
purgeEnded(i) == i \in 1..Len(purge) /\ purge[i].pc \in {"done", "failed"}

\* C15: every account purge moves only along Requested -> DataPurged ->
\* FilesPurged -> CredentialRevoked, returns {success: true} only in
\* CredentialRevoked, and every invocation eventually ends in
\* CredentialRevoked or in a failed terminal state.
C15_PurgeStateMachine ==
  /\ []purgeInOrder
  /\ []<>(\A i \in 1..Len(purge) : purgeEnded(i))

\* an invocation has gone through all its requests and has returned
\* {success: true}
C15_Witness ==
  \E i \in 1..Len(purge) :
    purge[i].pc = "done" /\ purge[i].completed = {purgeRequests[k] : k \in 1..9}

\* C16: if credential revocation fails after the batch commit and the storage
\* deletion succeeded, the invocation ends with the error 'internal' and never
\* with {success: true}; nothing is rolled back: the step changes no document,
\* storage object or credential, the user document stays deleted, and the
\* credential, unless another invocation has revoked it, still exists.
C16_RevocationFailure ==
  [][\A i \in 1..Len(purge) :
       (purge[i].pc = "auth" /\ purge'[i].pc # "auth")
         => \/ purge'[i].success /\ purge[i].userId \notin auth'
            \/ /\ purge'[i].pc = "failed"
               /\ purge'[i].error = "internal"
               /\ ~purge'[i].success
               /\ {"commit", "files"} \subseteq purge'[i].completed
               /\ UNCHANGED stored
               /\ ~users'[purge[i].userId].exists
               /\ storage'[purge[i].userId] = {}
               /\ (\A j \in 1..Len(purge) :
                     purge[j].userId = purge[i].userId
                       => "auth" \notin purge[j].completed)
                    => purge[i].userId \in auth']_vars

\* the revocation of an existing credential has failed after the documents
\* and files were deleted
C16_Witness ==
  \E i \in 1..Len(purge) :
    /\ purge[i].pc = "failed"
    /\ "auth" \in purge[i].attempted
    /\ purge[i].userId \in auth
    /\ ~users[purge[i].userId].exists

\* invocation i has ended after request r threw
purgeFailedAt(i, r) ==
  /\ purge[i].pc \in {"done", "failed"}
  /\ r \in purge[i].attempted \ purge[i].completed

\* C19 as stated: later purge steps are not gated on earlier ones: when the
\* batched deletion fails, storage deletion and credential revocation are
\* still attempted, and when storage deletion fails, credential revocation is
\* still attempted.
C19_LaterStepsAttempted ==
  \A i \in 1..Len(purge) :
    /\ purgeFailedAt(i, "commit") => {"files", "auth"} \subseteq purge[i].attempted
    /\ purgeFailedAt(i, "files") => "auth" \in purge[i].attempted

\* C19, amended: the first request that throws ends the invocation with the
\* error 'internal': after a failed batch commit neither storage deletion nor
\* credential revocation is attempted, after a failed storage deletion
\* credential revocation is not attempted; nothing is rolled back: after a
\* failed storage deletion the user document is still deleted.
C19_FirstFailureEndsPurge ==
  \A i \in 1..Len(purge) :
    /\ purge[i].attempted \ purge[i].completed # {}
         => /\ purge[i].pc = "failed"
            /\ purge[i].error = "internal"
            /\ Cardinality(purge[i].attempted \ purge[i].completed) = 1
    /\ "commit" \in purge[i].attempted \ purge[i].completed
         => purge[i].attempted \cap {"files", "auth"} = {}
    /\ "files" \in purge[i].attempted \ purge[i].completed
         => /\ "auth" \notin purge[i].attempted
            /\ ~users[purge[i].userId].exists

\* an invocation has ended after its batch commit failed
C19_Witness ==
  \E i \in 1..Len(purge) : purgeFailedAt(i, "commit")

\* ------------------------------------------------------------------------
\* Properties of the trigger handlers
\* ------------------------------------------------------------------------

\* the calls of sendPushNotification made by sendMessageNotification
RECURSIVE dispatchedBy(_)
dispatchedBy(invocations) ==
  IF invocations = <<>> THEN 0
  ELSE Head(invocations).dispatched + dispatchedBy(Tail(invocations))

\* the calls of sendPushNotification made by checkFollowerReward: one after
\* every reward Transaction of a user with a push token
rewardPushes(u) ==
  IF users[u].pushToken # NoToken THEN Len(transactions[u]) ELSE 0

\* C17: each call of sendPushNotification performs exactly one request to the
\* push gateway, whether the request succeeds or fails: the requests made are
\* as many as the calls, a step adds at most one request, and no request is
\* taken back or made again.
C17_OneRequestPerCall ==
  Len(pushLog) = dispatchedBy(smn) + rewardPushes("u3")

\* a request to the push gateway has failed
C17_Witness ==
  \E k \in 1..Len(pushLog) : ~pushLog[k].delivered

\* C18: no trigger handler raises an error, whichever read, write or push
\* request fails during the invocation: every failure ends in a catch block
\* that logs it; a step of sendMessageNotification that calls the push
\* gateway leaves the message and chat documents unchanged.
C18_HandlersNeverRaise ==
  /\ raised = {}
  /\ [][/\ raised' = {}
        /\ (\E i \in 1..Len(smn) : smn[i].pc = "push" /\ smn'[i].pc = "done")
             => (message' = message /\ chat' = chat)]_vars

\* the push request of sendMessageNotification has failed, and so has a
\* request of another handler
C18_Witness ==
  /\ \E k \in 1..Len(pushLog) :
       pushLog[k].type = "message" /\ ~pushLog[k].delivered
  /\ failures >= 2

\* ------------------------------------------------------------------------
\* Properties of the follow system on backfilled data
\* ------------------------------------------------------------------------

\* a followers edge of user u has been created
followerGained(u) ==
  \E e \in 1..Len(edgeEvents) :
    isCreate(edgeEvents[e]) /\ edgeEvents[e].userId = u

\* C20: for a user whose followersCount is at or above the threshold while
\* rewardClaimed is false, the next single follower-edge creation results in
\* the reward (once checkFollowerReward has handled the event and no request
\* has failed: rewardClaimed is true, the balance is credited and a reward
\* Transaction exists); as long as no followers edge is created for the user,
\* no reward is issued.
C20_BackfilledReward ==
  \A u \in Users :
    /\ (/\ otherFollowers[u] >= DefaultThreshold
        /\ failures = 0
        /\ Len(edgeEvents) = 1
        /\ followerGained(u)
        /\ edgeEvents[1].cfr >= 1
        /\ ~rewardRunning(u))
         => /\ users[u].rewardClaimed
            /\ users[u].balance >= rewardAmount
            /\ Len(transactions[u]) >= 1
    /\ ~followerGained(u)
         => /\ ~users[u].rewardClaimed
            /\ users[u].balance = 0
            /\ transactions[u] = <<>>

\* a user with exactly the threshold's followers was rewarded by the
\* invocation for the first followers edge, which read the count before any
\* counter increment
C20_Witness ==
  \E u \in Users :
    /\ otherFollowers[u] = DefaultThreshold
    /\ Len(edgeEvents) = 1
    /\ followerGained(u)
    /\ edgeEvents[1].ufc = 0
    /\ users[u].followersCount = DefaultThreshold
    /\ users[u].rewardClaimed
    /\ Len(transactions[u]) = 1

\* ------------------------------------------------------------------------
\* The follow system under every shape of settings/rewardRule
\* ------------------------------------------------------------------------

\* settings/rewardRule: not created, created with the threshold 5000, or
\* created without a followerThreshold field
SettingsDocs ==
  {[exists |-> FALSE, followerThreshold |-> Undefined],
   [exists |-> TRUE, followerThreshold |-> <<DefaultThreshold>>],
   [exists |-> TRUE, followerThreshold |-> Undefined]}

\* as Init, with any of the settings documents, and a followed user who has
\* either no follower or the followers of the milestone
InitSettings ==
  /\ otherFollowers \in [Users -> {0, DefaultThreshold}]
  /\ \A u \in Users : u \notin Profiles => otherFollowers[u] = 0
  /\ \E tokens \in SUBSET Profiles :
       users = [u \in Users |->
                  incrementFollowers(signUp(u \in tokens, u), otherFollowers[u])]
  /\ following = [u \in Users |-> {}]
  /\ followers = [u \in Users |-> {}]
  /\ transactions = [u \in Users |-> <<>>]
  /\ settings \in SettingsDocs
  /\ screens = [s \in Screens |->
                  [isFollowing |-> FALSE, followLoading |-> FALSE,
                   pc |-> "idle"]]
  /\ followOps = 0
  /\ edgeEvents = <<>>
  /\ cfr = EmptyBag
  /\ pushLog = <<>>
  /\ chat = NoChat
  /\ message = NoMessage
  /\ chatScreen = "idle"
  /\ smn = <<>>
  /\ failures = 0
  /\ raised = {}
  /\ posts = [u \in Users |-> {}]
  /\ comments = [u \in Users |-> {}]
  /\ storage = [u \in Users |-> {}]
  /\ auth = Users
  /\ purge = <<>>

SpecSettings == InitSettings /\ [][Next]_vars

\* no follower threshold is set
thresholdUnset == ~settings.exists \/ settings.followerThreshold = Undefined

\* C21: whenever no follower threshold is set (settings/rewardRule does not
\* exist, or exists without followerThreshold), checkFollowerReward uses 5000:
\* a user with at least 5000 followers and no reward is rewarded by the
\* invocation for a created followers edge (once it has ended, no request
\* having failed), and a user whose followersCount stays below 5000 is not
\* rewarded.
C21_DefaultThreshold ==
  \A u \in Users :
    thresholdUnset
      => /\ (/\ otherFollowers[u] >= DefaultThreshold
             /\ failures = 0
             /\ Len(edgeEvents) = 1
             /\ followerGained(u)
             /\ edgeEvents[1].cfr >= 1
             /\ ~rewardRunning(u))
              => /\ users[u].rewardClaimed
                 /\ users[u].balance >= rewardAmount
                 /\ Len(transactions[u]) >= 1
         /\ otherFollowers[u] = 0
              => /\ ~users[u].rewardClaimed
                 /\ users[u].balance = 0
                 /\ transactions[u] = <<>>

\* ------------------------------------------------------------------------
\* Properties of the reward issuer next to the account purge
\* ------------------------------------------------------------------------

\* the test of lines 29 and 42 on the stored documents fails
noRewardDue(u) ==
  \/ ~users[u].exists
  \/ ~jsGreaterEq(users[u].followersCount, thresholdOf(settings))
  \/ users[u].rewardClaimed

\* C22: a checkFollowerReward invocation that reads followersCount below the
\* threshold, rewardClaimed already true or no user document is a no-op: it
\* changes no balance, rewardClaimed flag or Transaction, dispatches no
\* notification and makes no further request; only an invocation that read
\* followersCount >= threshold and rewardClaimed false goes on to the writes.
C22_NoRewardNoOp ==
  [][/\ \A e \in 1..Len(edgeEvents) :
          (edgeEvents'[e].cfr = edgeEvents[e].cfr + 1
             /\ noRewardDue(edgeEvents[e].userId))
            => /\ users' = users
               /\ transactions' = transactions
               /\ pushLog' = pushLog
               /\ cfr' = cfr
     /\ \A inv \in BagToSet(cfr') :
          /\ jsGreaterEq(inv.userData.followersCount, inv.threshold)
          /\ ~inv.userData.rewardClaimed]_vars

\* an invocation has handled the create event of a user whose followersCount
\* it read below the threshold, and has ended without any write
C22_Witness ==
  \E e \in 1..Len(edgeEvents) :
    LET u == edgeEvents[e].userId
    IN /\ isCreate(edgeEvents[e])
       /\ edgeEvents[e].cfr >= 1
       /\ failures = 0
       /\ ~rewardRunning(u)
       /\ users[u].exists
       /\ ~users[u].rewardClaimed
       /\ users[u].balance = 0
       /\ transactions[u] = <<>>

\* ------------------------------------------------------------------------
\* Properties of the reconciler next to the account purge
\* ------------------------------------------------------------------------

\* event e is delivered to updateFollowerCounts in the step
reconciled(e) == edgeEvents'[e].ufc = edgeEvents[e].ufc + 1

\* C23: when the batch of an updateFollowerCounts invocation cannot commit
\* (one of the two user documents does not exist, or the commit fails), the
\* whole reconciliation is dropped: no counter of any user changes, and the
\* invocation makes no second attempt: one delivery is one commit attempt,
\* and a batch is committed at most once per delivery.
C23_FailedBatchDropped ==
  [][\A e \in 1..Len(edgeEvents) :
       reconciled(e)
         => LET ev == edgeEvents[e]
            IN /\ (~users[ev.userId].exists \/ ~users[ev.followerId].exists)
                    /\ (isCreate(ev) \/ isDelete(ev))
                    => /\ users' = users
                       /\ edgeEvents'[e].applied = ev.applied
               /\ edgeEvents'[e].applied = ev.applied => users' = users
               /\ edgeEvents'[e].applied <= ev.applied + 1
               /\ edgeEvents'[e].applied <= edgeEvents'[e].ufc
               /\ failures' <= failures + 1]_vars

\* the batch for an edge event was rejected because a user document did not
\* exist, while the other one did
C23_Witness ==
  \E e \in 1..Len(edgeEvents) :
    LET ev == edgeEvents[e]
    IN /\ isCreate(ev) \/ isDelete(ev)
       /\ ev.ufc >= 1
       /\ ev.applied = 0
       /\ failures = 0
       /\ users[ev.userId].exists # users[ev.followerId].exists

\* ------------------------------------------------------------------------
\* AuthContext: sign-in with a Google or phone credential
\* ------------------------------------------------------------------------

\* signInWithGoogle / signInWithPhone of a user whose credential exists:
\* const userDoc = await getDoc(doc(db, 'users', uid)); if (!userDoc.exists())
\* await setDoc(doc(db, 'users', uid), userProfile).  Only an account purge
\* deletes a user document, so a document missing at the getDoc is still
\* missing at the setDoc.  With an existing document the sign-in only updates
\* lastActive.
signInWithCredential(u) ==
  /\ u \in auth
  /\ ~users[u].exists
  /\ users' = [users EXCEPT ![u] = signUp(FALSE, u)]
  /\ UNCHANGED <<following, followers, otherFollowers, transactions, settings,
                 screens, followOps, edgeEvents, cfr, pushLog, failures,
                 raised>>
  /\ UNCHANGED <<msgVars, purgeVars>>

\* ------------------------------------------------------------------------
\* Account purge, the reconciler of its edge deletions, and sign-in
\* ------------------------------------------------------------------------

NextReturn ==
  \/ NextPurgeCalls
  \/ \E e \in 1..Len(edgeEvents) : updateFollowerCounts(e)
  \/ \E u \in Users : signInWithCredential(u)

SpecReturn == InitPurge /\ [][NextReturn]_vars

\* invocation i commits its batch in the step
purgeCommitted(i) ==
  /\ i \in 1..Len(purge)
  /\ purge[i].pc = "commit"
  /\ "commit" \in purge'[i].completed

\* the followers edge of event ev was deleted by the batch of a purge
deletedByPurge(ev) ==
  /\ isDelete(ev)
  /\ \E j \in 1..Len(purge) :
       /\ purge[j].userId = ev.userId
       /\ "commit" \in purge[j].completed
       /\ ev.followerId \in purge[j].followerDocs

\* the commit of a purge leaves the documents, edges and counters of every
\* other user unchanged
purgeLeavesOthers ==
  \A i \in 1..Len(purge) :
    purgeCommitted(i)
      => \A v \in Users \ {purge[i].userId} :
           /\ users'[v] = users[v]
           /\ followers'[v] = followers[v]
           /\ following'[v] = following[v]
           /\ otherFollowers'[v] = otherFollowers[v]

InitRelay ==
  /\ users = [u \in Users |-> signUp(TRUE, u)]
  /\ chat \in ChatDocs
  /\ \E sender \in {chatUser, chatPeer} :
       message = [sentMessage EXCEPT !.senderId = sender,
                                     !.senderName = senderNameOf(sender)]
  /\ chatScreen = "idle"
  /\ smn = <<>>
  /\ pushLog = <<>>
  /\ failures = 0
  /\ otherFollowers = [u \in Users |-> 0]
  /\ following = [u \in Users |-> {}]
  /\ followers = [u \in Users |-> {}]
  /\ transactions = [u \in Users |-> <<>>]
  /\ settings = [exists |-> TRUE, followerThreshold |-> <<DefaultThreshold>>]
  /\ screens = [s \in Screens |->
                  [isFollowing |-> FALSE, followLoading |-> FALSE,
                   pc |-> "idle"]]
  /\ followOps = 0
  /\ edgeEvents = <<>>
  /\ cfr = EmptyBag
  /\ raised = {}
  /\ posts = [u \in Users |-> {}]
  /\ comments = [u \in Users |-> {}]
  /\ storage = [u \in Users |-> {}]
  /\ auth = Users
  /\ purge = <<>>

NextRelay ==
  \/ sendMessageNotificationGetChat
  \/ \E i \in 1..Len(smn) : sendMessageNotificationGetRecipient(i)
  \/ \E i \in 1..Len(smn) : sendMessageNotificationPush(i)

SpecRelay == InitRelay /\ [][NextRelay]_vars

\* the ids in the participants list of the chat
participantsOf(chatDoc) ==
  {chatDoc.participants[k] : k \in 1..Len(chatDoc.participants)}

\* C25: sendMessageNotification dispatches a notification only to a
\* participant of the chat whose id differs from the message's senderId,
\* never to the sender; when the chat has no participant other than the
\* sender it dispatches nothing.
C25_NeverToSender ==
  /\ \A i \in 1..Len(smn) :
       /\ smn[i].recipientId # Undefined
            => /\ smn[i].recipientId[1] # message.senderId
               /\ smn[i].recipientId[1] \in participantsOf(chat)
       /\ smn[i].dispatched >= 1 => smn[i].recipientId # Undefined
  /\ \A k \in 1..Len(pushLog) :
       /\ pushLog[k].to # PushTokenOf(message.senderId)
       /\ \E u \in participantsOf(chat) \ {message.senderId} :
            pushLog[k].to = PushTokenOf(u)
  /\ participantsOf(chat) \subseteq {message.senderId} => pushLog = <<>>

\* a notification was dispatched for a message whose sender is the first
\* participant of the chat
C25_Witness ==
  /\ chat.exists
  /\ Len(chat.participants) = 2
  /\ chat.participants[1] = message.senderId
  /\ \E k \in 1..Len(pushLog) : pushLog[k].type = "message"

\* ------------------------------------------------------------------------
\* Further properties of the follow system
\* ------------------------------------------------------------------------

\* C26: followersCount and followingCount of every user are >= 0 in every
\* reachable state, under any interleaving of follow and unfollow operations,
\* reconciler invocations, repeated deliveries and partial failures of
\* handleFollow.
C26_CountersNonNegative ==
  \A u \in Users :
    users[u].followersCount >= 0 /\ users[u].followingCount >= 0

\* C27: rewardClaimed is set once and tied to the credit: once it is true
\* for a user no step makes it false again while the user document exists,
\* the step that sets it credits wallet.balance with the reward amount in the
\* same write, and rewardClaimed = true implies that the balance holds at
\* least the reward amount.
C27_ClaimedWithCredit ==
  [][\A u \in Users :
       /\ (users[u].rewardClaimed /\ users'[u].exists)
            => users'[u].rewardClaimed
       /\ (~users[u].rewardClaimed /\ users'[u].rewardClaimed)
            => users'[u].balance = users[u].balance + rewardAmount
       /\ users'[u].rewardClaimed => users'[u].balance >= rewardAmount]_vars

\* a checkFollowerReward invocation has just set rewardClaimed and credited
\* the balance of a user who had no reward
C27_Witness ==
  \E inv \in BagToSet(cfr) :
    /\ inv.pc = "transaction"
    /\ users[inv.userId].rewardClaimed
    /\ users[inv.userId].balance = rewardAmount
    /\ transactions[inv.userId] = <<>>

\* ------------------------------------------------------------------------
\* Properties of concurrent account purges and handlers in flight
\* ------------------------------------------------------------------------

\* C28: no chat document ever has an empty participants list: after any
\* interleaving of account purges, also of both participants of one chat at
\* the same time, the chat either has been deleted or has at least one
\* participant.
C28_ChatHasParticipant ==
  chat.exists => Len(chat.participants) >= 1

\* C29: after deleteUserAccount for U has returned {success: true} and every
\* trigger handler that was in flight has finished (and no handleFollow call
\* is in flight), no document exists under users/U: no user document, no
\* following or followers edge, and in particular no Transaction written by
\* a checkFollowerReward invocation that overlapped the purge.
C29_NothingLeftByHandlers ==
  \A i \in 1..Len(purge) :
    (purge[i].success /\ cfr = EmptyBag /\ allDelivered /\ clientsIdle)
      => LET u == purge[i].userId
         IN /\ ~users[u].exists
            /\ following[u] = {}
            /\ followers[u] = {}
            /\ otherFollowers[u] = 0
            /\ transactions[u] = <<>>

\* ------------------------------------------------------------------------
\* The follow system after a handleFollow that failed partway
\* ------------------------------------------------------------------------

\* u1's handleFollow on u3 has written both edge documents and has failed at
\* its first counter update: the edges exist, no counter was incremented,
\* isFollowing is still false, and the create event waits for delivery
InitRefollow ==
  /\ otherFollowers = [u \in Users |->
       IF u = "u3" THEN DefaultThreshold - 1 ELSE 0]
  /\ \E hasToken \in BOOLEAN :
       users = [u \in Users |->
         IF u = "u3"
           THEN incrementFollowers(signUp(hasToken, u), otherFollowers[u])
         ELSE signUp(FALSE, u)]
  /\ following = [u \in Users |-> IF u = "u1" THEN {"u3"} ELSE {}]
  /\ followers = [u \in Users |-> IF u = "u3" THEN {"u1"} ELSE {}]
  /\ transactions = [u \in Users |-> <<>>]
  /\ settings = [exists |-> TRUE, followerThreshold |-> <<DefaultThreshold>>]
  /\ screens = [s \in Screens |->
                  [isFollowing |-> FALSE, followLoading |-> FALSE,
                   pc |-> "idle"]]
  /\ followOps = 0
  /\ edgeEvents = <<[userId |-> "u3", followerId |-> "u1",
                     before |-> FALSE, after |-> TRUE,
                     ufc |-> 0, cfr |-> 0, applied |-> 0,
                     afterReward |-> FALSE]>>
  /\ cfr = EmptyBag
  /\ pushLog = <<>>
  /\ chat = NoChat
  /\ message = NoMessage
  /\ chatScreen = "idle"
  /\ smn = <<>>
  /\ failures = 0
  /\ raised = {}
  /\ posts = [u \in Users |-> {}]
  /\ comments = [u \in Users |-> {}]
  /\ storage = [u \in Users |-> {}]
  /\ auth = Users
  /\ purge = <<>>

SpecRefollow == InitRefollow /\ [][Next]_vars

\* the edge document existed before the write and exists after it
isUpdate(ev) == ev.before /\ ev.after

\* C30: updateFollowerCounts changes no counter when the followers edge
\* document existed before the write and still exists after it (a repeated
\* follow that overwrites the edge document): the invocation for such an
\* event leaves followersCount and followingCount of all users unchanged and
\* commits no counter update.
C30_UpdateEventNoCount ==
  [][\A e \in 1..Len(edgeEvents) :
       (reconciled(e) /\ isUpdate(edgeEvents[e]))
         => /\ users' = users
            /\ edgeEvents'[e].applied = 0]_vars

\* the event of a repeated follow that overwrote the existing edge document
\* was delivered to updateFollowerCounts
C30_Witness ==
  \E e \in 1..Len(edgeEvents) :
    isUpdate(edgeEvents[e]) /\ edgeEvents[e].ufc >= 1

====
